---- MODULE Spec2Model ----
(***************************************************************************)
(* The libkv meta-plugin (plugins/meta/libkv/libkv.go): cmdAdd fetches a   *)
(* JSON array of network configurations from a key/value store, saves the *)
(* fetched bytes under /var/lib/cni/libkv/<containerID> and delegates the *)
(* entries one after the other; cmdDel consumes the saved bytes and        *)
(* delegates the same entries again.                                       *)
(*                                                                         *)
(* Byte strings are sequences of JSON tokens.  The remote store and the    *)
(* child plugins are the environment: what kv.Get, DelegateAdd and         *)
(* DelegateDel answer is drawn from small sets at the step that calls them.*)
(***************************************************************************)
EXTENDS Naturals, Sequences, FiniteSets

(* ------------------------------ bounds -------------------------------- *)

\* longest array of configurations the store serves
MaxEntries == 3

(* --------------------------- JSON byte strings ------------------------ *)

BridgeTok == "{\"type\":\"bridge\"}"
LoopbackTok == "{\"type\":\"loopback\"}"
EmptyObjTok == "{}"
NumTypeTok == "{\"type\":1}"

ObjectToks == {BridgeTok, LoopbackTok, EmptyObjTok, NumTypeTok}

\* the map[string]interface{} a JSON object decodes to
ObjOf(tok) ==
  IF tok = BridgeTok THEN [type |-> [kind |-> "string", v |-> "bridge"]]
  ELSE IF tok = LoopbackTok THEN [type |-> [kind |-> "string", v |-> "loopback"]]
  ELSE IF tok = NumTypeTok THEN [type |-> [kind |-> "number", v |-> "1"]]
  ELSE << >>

\* json.Marshal of a decoded configuration
Marshal(conf) ==
  IF "type" \notin DOMAIN conf THEN <<EmptyObjTok>>
  ELSE IF conf["type"].kind = "string"
    THEN <<"{\"type\":\"" \o conf["type"].v \o "\"}">>
  ELSE <<"{\"type\":" \o conf["type"].v \o "}">>

StripSpace(b) == SelectSeq(b, LAMBDA t : t # " ")

\* json.Unmarshal(bytes, &netconfs) with netconfs []map[string]interface{}
Unmarshal(b) ==
  LET t == StripSpace(b)
      n == Len(t)
      inner == SubSeq(t, 2, n - 1)
      m == Len(inner)
      wellFormed ==
        /\ m % 2 = 1
        /\ \A i \in 1..m : IF i % 2 = 1 THEN inner[i] \in ObjectToks
                                           ELSE inner[i] = ","
  IN  IF n < 2 \/ t[1] # "[" \/ t[n] # "]"
        THEN [err |-> TRUE, val |-> << >>]
      ELSE IF m = 0
        THEN [err |-> FALSE, val |-> << >>]
      ELSE IF ~wellFormed
        THEN [err |-> TRUE, val |-> << >>]
      ELSE [err |-> FALSE,
            val |-> [k \in 1..((m + 1) \div 2) |-> ObjOf(inner[2 * k - 1])]]

\* conf["type"].(string): the assertion panics on a missing or non-string value
TypeAssertOk(conf) ==
  /\ "type" \in DOMAIN conf
  /\ conf["type"].kind = "string"

TypeOf(conf) == conf["type"].v

(* ------------------------------- inputs ------------------------------- *)

ContainerIDs == {"1", "2"}

RECURSIVE Alternating(_, _)
\* the array of n entries bridge, loopback, bridge, ... (or starting with loopback)
Alternating(n, first) ==
  IF n = 0 THEN << >>
  ELSE <<first>> \o Alternating(n - 1, IF first = BridgeTok THEN LoopbackTok ELSE BridgeTok)

RECURSIVE Compact(_)
Compact(toks) ==
  IF toks = << >> THEN << >>
  ELSE IF Len(toks) = 1 THEN toks
  ELSE <<toks[1], ",">> \o Compact(Tail(toks))

\* the store value of Documentation/libkv.md, with and without white space
BridgeLoopback == <<"[">> \o Compact(<<BridgeTok, LoopbackTok>>) \o <<"]">>
Spaced == <<"[", " ", BridgeTok, ",", " ", LoopbackTok, " ", "]">>
\* second entry without a "type"
NoType == <<"[", BridgeTok, ",", EmptyObjTok, "]">>
\* first entry with a "type" that is no string
NumType == <<"[", NumTypeTok, "]">>
\* a JSON value that is no array
NotAList == <<BridgeTok>>

StoreValues ==
  {<<"[">> \o Compact(Alternating(n, f)) \o <<"]">> :
      n \in 0..MaxEntries, f \in {BridgeTok, LoopbackTok}}
  \cup {Spaced, NoType, NumType, NotAList}

\* the keys under which the operator has put configurations into the store
StoreKeys == {<<"c", "n", "i", "/", c>> : c \in ContainerIDs}

\* args.StdinData: the plugin's own netconf, as far as it decodes (json marks
\* whether it is JSON at all; an absent basePath decodes to the empty string)
StdinData ==
  {[json |-> FALSE, StoreBackend |-> "", BasePath |-> << >>]}
  \cup {[json |-> TRUE, StoreBackend |-> "etcd", BasePath |-> p] :
          p \in {<< >>, <<"c", "n", "i">>, <<"c", "n", "i", "/">>}}

\* what a child plugin prints on a successful ADD
Results == {"r1", "r2"}

(* ------------------------------- state -------------------------------- *)

None == "none"
\* a path without a file, and a file with its bytes
NoFile == [exists |-> FALSE, data |-> << >>]
File(b) == [exists |-> TRUE, data |-> b]
\* the zero values of the invocation's variables
NoStdin == [json |-> FALSE, StoreBackend |-> "", BasePath |-> << >>]
NoArgs == [ContainerID |-> "", StdinData |-> NoStdin]
NoConfig == [StoreBackend |-> "", BasePath |-> << >>]

VARIABLES
  scratch,      \* the files below stateDir: path -> bytes, or NoFile
  pc,           \* position of the running invocation, "idle" when none runs
  cmd,          \* "ADD" or "DEL": the command of the running invocation
  args,         \* skel.CmdArgs of the running invocation: [ContainerID, StdinData]
  config,       \* cmdAdd: *LibKvConf returned by loadPluginConfig
  key,          \* cmdAdd: the store key
  bytes,        \* cmdAdd: pair.Value; cmdDel: netconfBytes
  readErr,      \* consumeScratchNetConf: the error of ioutil.ReadFile
  netconfs,     \* the decoded array
  index,        \* loop index (0-based, as in the code)
  result,       \* cmdAdd: result
  outcome,      \* how the invocation ended, None while it runs
  stdout,       \* what the invocation printed
  calls,        \* the delegations of the running invocation, in order
  ops,          \* per invocation: calls made of loadPluginConfig, NewStore, Get, save
  before,       \* the container's scratch file as it was when the invocation began
  saved,        \* per container: the bytes the last completed save wrote, if any
  last,         \* per container: command of its last finished invocation and how it ended
  other         \* a second cmdDel process, running at the same time as the first

vars == <<scratch, pc, cmd, args, config, key, bytes, readErr, netconfs, index,
          result, outcome, stdout, calls, ops, before, saved, last, other>>

stateDir == <<"var", "lib", "cni", "libkv">>

\* one file for all containers
ScratchPathShared(containerID) == Append(stateDir, "netconf")

\* filepath.Join(stateDir, containerID)
ScratchPath(containerID) == Append(stateDir, containerID)

NoOps == [load |-> 0, connect |-> 0, get |-> 0, save |-> 0]

\* the second process when it does not run
NoOther ==
  [pc |-> "idle", ContainerID |-> "", bytes |-> << >>, readErr |-> None,
   netconfs |-> << >>, index |-> 0, outcome |-> None, calls |-> << >>]

Init ==
  /\ scratch = [p \in {ScratchPath(c) : c \in ContainerIDs} |-> NoFile]
  /\ pc = "idle"
  /\ cmd = None
  /\ args = NoArgs
  /\ config = NoConfig
  /\ key = << >>
  /\ bytes = << >>
  /\ readErr = None
  /\ netconfs = << >>
  /\ index = 0
  /\ result = None
  /\ outcome = None
  /\ stdout = None
  /\ calls = << >>
  /\ ops = NoOps
  /\ before = NoFile
  /\ saved = [c \in ContainerIDs |-> NoFile]
  /\ last = [c \in ContainerIDs |-> [cmd |-> None, outcome |-> None]]
  /\ other = NoOther

\* how an invocation ended, as far as the next invocation's reader cares
Ended(o) == IF o \in {"ok", "DelegateError"} THEN o ELSE "error"

\* the outcomes that are an error cmdAdd or cmdDel returns to skel.PluginMain;
\* "Fatal" is the exit of log.Fatal and "Panic" a run-time panic
ReturnedErrors ==
  {"ConfigError", "GetError", "UnmarshalError", "SaveError", "DelegateError",
   "NotExist", "IOError"}

\* the invocation ends: the process exits with this outcome
Exit(o) ==
  /\ pc' = "done"
  /\ outcome' = o

(* ------------------------------- cmdAdd ------------------------------- *)

HasSuffix(s, suffix) ==
  /\ Len(s) >= Len(suffix)
  /\ SubSeq(s, Len(s) - Len(suffix) + 1, Len(s)) = suffix

\* loadPluginConfig without the separator appended to BasePath
loadPluginConfigRaw(stdin) ==
  IF ~stdin.json THEN [err |-> TRUE, config |-> NoConfig]
  ELSE [err |-> FALSE,
        config |-> [StoreBackend |-> stdin.StoreBackend, BasePath |-> stdin.BasePath]]

\* loadPluginConfig: the decoded configuration with BasePath normalised
loadPluginConfig(stdin) ==
  IF ~stdin.json THEN [err |-> TRUE, config |-> NoConfig]
  ELSE [err |-> FALSE,
        config |-> [StoreBackend |-> stdin.StoreBackend,
                    BasePath |-> IF ~HasSuffix(stdin.BasePath, <<"/">>)
                                   THEN stdin.BasePath \o <<"/">>
                                   ELSE stdin.BasePath]]

\* cmdAdd lines 56-60: the host invokes ADD; the plugin loads its own netconf
AddInvoke(c, stdin) ==
  /\ pc = "idle"
  /\ cmd' = "ADD"
  /\ args' = [ContainerID |-> c, StdinData |-> stdin]
  /\ before' = scratch[ScratchPath(c)]
  /\ ops' = [NoOps EXCEPT !.load = 1]
  /\ LET r == loadPluginConfig(args'.StdinData)
     IN  IF r.err
           THEN /\ Exit("ConfigError")
                /\ UNCHANGED config
           ELSE /\ pc' = "add_connect"
                /\ config' = r.config
                /\ UNCHANGED outcome
  /\ UNCHANGED <<scratch, key, bytes, readErr, netconfs, index, result, stdout,
                 calls, saved, last, other>>

\* cmdAdd lines 62-74: libkv.NewStore; log.Fatal ends the process on an error
AddConnect ==
  /\ pc = "add_connect"
  /\ ops' = [ops EXCEPT !.connect = @ + 1]
  /\ \E ok \in BOOLEAN :
       IF ok
         THEN /\ key' = config.BasePath \o <<args.ContainerID>>
              /\ pc' = "add_get"
              /\ UNCHANGED outcome
         ELSE /\ Exit("Fatal")
              /\ UNCHANGED key
  /\ UNCHANGED <<scratch, cmd, args, config, bytes, readErr, netconfs, index,
                 result, stdout, calls, before, saved, last, other>>

\* what kv.Get(key) can answer: an error (key not found, or a store fault),
\* or the value the store holds at the key
GetAnswers(k) ==
  {[err |-> TRUE, Value |-> << >>]}
  \cup (IF k \in StoreKeys THEN {[err |-> FALSE, Value |-> v] : v \in StoreValues}
        ELSE {})

\* AddGet with the error of json.Unmarshal dropped
AddGetIgnoresParseError ==
  /\ pc = "add_get"
  /\ ops' = [ops EXCEPT !.get = @ + 1]
  /\ \E pair \in GetAnswers(key) :
       IF pair.err
         THEN /\ Exit("GetError")
              /\ UNCHANGED <<bytes, netconfs>>
         ELSE /\ bytes' = pair.Value
              /\ netconfs' = Unmarshal(pair.Value).val
              /\ pc' = "add_save"
              /\ UNCHANGED outcome
  /\ UNCHANGED <<scratch, cmd, args, config, key, readErr, index, result, stdout,
                 calls, before, saved, last, other>>

\* cmdAdd lines 75-83: kv.Get and json.Unmarshal
AddGet ==
  /\ pc = "add_get"
  /\ ops' = [ops EXCEPT !.get = @ + 1]
  /\ \E pair \in GetAnswers(key) :
       IF pair.err
         THEN /\ Exit("GetError")
              /\ UNCHANGED <<bytes, netconfs>>
         ELSE /\ bytes' = pair.Value
              /\ LET u == Unmarshal(pair.Value)
                 IN  IF u.err
                       THEN /\ Exit("UnmarshalError")
                            /\ UNCHANGED netconfs
                       ELSE /\ netconfs' = u.val
                            /\ pc' = "add_save"
                            /\ UNCHANGED outcome
  /\ UNCHANGED <<scratch, cmd, args, config, key, readErr, index, result, stdout,
                 calls, before, saved, last, other>>

\* json.Marshal of the decoded array: the bytes without their white space
Remarshal(b) == StripSpace(b)

\* SaveAnswers writing the re-encoded array in place of the bytes it was given
SaveAnswersRemarshal(old, netconf) ==
  {[err |-> FALSE, file |-> File(Remarshal(netconf))],
   [err |-> TRUE, file |-> old],
   [err |-> TRUE, file |-> File(<< >>)]}

\* what saveScratchNetConf can leave at the path: the bytes (no error); the
\* file as it was (MkdirAll or the open failed); an empty file (the write failed)
SaveAnswers(old, netconf) ==
  {[err |-> FALSE, file |-> File(netconf)],
   [err |-> TRUE, file |-> old],
   [err |-> TRUE, file |-> File(<< >>)]}

\* saveScratchNetConf that has not written the file when it returns
saveScratchNetConfLater(containerID, netconf, r) ==
  /\ r \in SaveAnswers(scratch[ScratchPath(containerID)], netconf)
  /\ scratch' = scratch

\* saveScratchNetConf that leaves a file that is already there as it is
saveScratchNetConfKeepsOld(containerID, netconf, r) ==
  /\ r \in SaveAnswers(scratch[ScratchPath(containerID)], netconf)
  /\ scratch' = IF scratch[ScratchPath(containerID)].exists THEN scratch
                ELSE [scratch EXCEPT ![ScratchPath(containerID)] = r.file]

\* saveScratchNetConf(containerID, netconf), the file system answering r
saveScratchNetConf(containerID, netconf, r) ==
  /\ r \in SaveAnswers(scratch[ScratchPath(containerID)], netconf)
  /\ scratch' = [scratch EXCEPT ![ScratchPath(containerID)] = r.file]

\* cmdAdd lines 85-89
AddSave ==
  /\ pc = "add_save"
  /\ ops' = [ops EXCEPT !.save = @ + 1]
  /\ \E r \in SaveAnswers(scratch[ScratchPath(args.ContainerID)], bytes) :
       /\ saveScratchNetConf(args.ContainerID, bytes, r)
       /\ saved' = [saved EXCEPT ![args.ContainerID] =
                      IF ~r.err THEN File(bytes)
                      ELSE IF r.file = before THEN @ ELSE NoFile]
       /\ IF r.err
            THEN /\ Exit("SaveError")
                 /\ UNCHANGED <<index, result>>
            ELSE /\ index' = 0
                 /\ result' = None
                 /\ pc' = IF netconfs = << >> THEN "add_print" ELSE "add_call"
                 /\ UNCHANGED outcome
  /\ UNCHANGED <<cmd, args, config, key, bytes, readErr, netconfs, stdout, calls,
                 before, last, other>>

\* the loop walking the array from its end
ConfBackwards == netconfs[Len(netconfs) - index]

\* the entry the loop is at
Conf == netconfs[index + 1]

\* the record of a delegation that has been started
Call(c, conf) ==
  [cmd |-> c, idx |-> index, type |-> TypeOf(conf), conf |-> Marshal(conf),
   status |-> "running", res |-> None]

\* cmdAdd lines 91-96: json.Marshal, the type assertion, DelegateAdd is called
AddDelegateCall ==
  /\ pc = "add_call"
  /\ IF TypeAssertOk(Conf)
       THEN /\ calls' = Append(calls, Call("ADD", Conf))
            /\ pc' = "add_wait"
            /\ UNCHANGED outcome
       ELSE /\ Exit("Panic")
            /\ UNCHANGED calls
  /\ UNCHANGED <<scratch, cmd, args, config, key, bytes, readErr, netconfs, index,
                 result, stdout, ops, before, saved, last, other>>

\* every delegation's result replacing the one kept
KeepLastResult(i, old, res) == res

\* cmdAdd lines 100-103: the first configuration's result is the one kept
KeepResult(i, old, res) == IF i = 0 THEN res ELSE old

\* a loop that steps over every other entry
NextIndexSkips(i) == i + 2

\* a loop that stays at the entry it is at
NextIndexStuck(i) == i

\* the next position of the range loop after entry i
NextIndex(i) == i + 1

\* AddDelegateReturn with the error of DelegateAdd dropped
AddDelegateReturnContinues ==
  /\ pc = "add_wait"
  /\ \/ \E res \in Results :
          /\ calls' = [calls EXCEPT ![Len(calls)].status = "ok",
                                    ![Len(calls)].res = res]
          /\ result' = KeepResult(index, result, res)
     \/ /\ calls' = [calls EXCEPT ![Len(calls)].status = "failed"]
        /\ UNCHANGED result
  /\ index' = NextIndex(index)
  /\ pc' = IF NextIndex(index) < Len(netconfs) THEN "add_call" ELSE "add_print"
  /\ UNCHANGED <<scratch, cmd, args, config, key, bytes, readErr, netconfs, stdout,
                 outcome, ops, before, saved, last, other>>

\* AddDelegateReturn that removes the scratch file when DelegateAdd fails
AddDelegateReturnCleansUp ==
  /\ pc = "add_wait"
  /\ \/ \E res \in Results :
          /\ calls' = [calls EXCEPT ![Len(calls)].status = "ok",
                                    ![Len(calls)].res = res]
          /\ result' = KeepResult(index, result, res)
          /\ index' = NextIndex(index)
          /\ pc' = IF NextIndex(index) < Len(netconfs) THEN "add_call" ELSE "add_print"
          /\ UNCHANGED <<outcome, scratch>>
     \/ /\ calls' = [calls EXCEPT ![Len(calls)].status = "failed"]
        /\ scratch' = [scratch EXCEPT ![ScratchPath(args.ContainerID)] = NoFile]
        /\ Exit("DelegateError")
        /\ UNCHANGED <<result, index>>
  /\ UNCHANGED <<cmd, args, config, key, bytes, readErr, netconfs, stdout,
                 ops, before, saved, last, other>>

\* cmdAdd lines 96-104: DelegateAdd returns
AddDelegateReturn ==
  /\ pc = "add_wait"
  /\ \/ \E res \in Results :
          /\ calls' = [calls EXCEPT ![Len(calls)].status = "ok",
                                    ![Len(calls)].res = res]
          /\ result' = KeepResult(index, result, res)
          /\ index' = NextIndex(index)
          /\ pc' = IF NextIndex(index) < Len(netconfs) THEN "add_call" ELSE "add_print"
          /\ UNCHANGED outcome
     \/ /\ calls' = [calls EXCEPT ![Len(calls)].status = "failed"]
        /\ Exit("DelegateError")
        /\ UNCHANGED <<result, index>>
  /\ UNCHANGED <<scratch, cmd, args, config, key, bytes, readErr, netconfs, stdout,
                 ops, before, saved, last, other>>

\* cmdAdd line 106: result.Print(); a nil result prints as null
AddPrint ==
  /\ pc = "add_print"
  /\ stdout' = result
  /\ Exit("ok")
  /\ UNCHANGED <<scratch, cmd, args, config, key, bytes, readErr, netconfs, index,
                 result, calls, ops, before, saved, last, other>>

(* ------------------------------- cmdDel ------------------------------- *)

\* cmdDel is invoked; its stdin is never looked at
DelInvoke(c, stdin) ==
  /\ pc = "idle"
  /\ cmd' = "DEL"
  /\ args' = [ContainerID |-> c, StdinData |-> stdin]
  /\ before' = scratch[ScratchPath(c)]
  /\ ops' = NoOps
  /\ pc' = "del_read"
  /\ UNCHANGED <<scratch, config, key, bytes, readErr, netconfs, index, result,
                 outcome, stdout, calls, saved, last, other>>

\* what ioutil.ReadFile can answer for a file
ReadAnswers(file) ==
  IF ~file.exists THEN {[err |-> "NotExist", data |-> << >>]}
  ELSE {[err |-> None, data |-> file.data], [err |-> "IOError", data |-> << >>]}

\* a teardown that fetches the array from the store again
DelReadStore ==
  /\ pc = "del_read"
  /\ \E pair \in GetAnswers(<<"c", "n", "i", "/", args.ContainerID>>) :
       /\ bytes' = pair.Value
       /\ readErr' = IF pair.err THEN "IOError" ELSE None
  /\ ops' = [ops EXCEPT !.get = @ + 1]
  /\ pc' = "del_remove"
  /\ UNCHANGED <<scratch, cmd, args, config, key, netconfs, index, result, outcome,
                 stdout, calls, before, saved, last, other>>

\* consumeScratchNetConf line 133: ioutil.ReadFile(path)
DelRead ==
  /\ pc = "del_read"
  /\ \E r \in ReadAnswers(scratch[ScratchPath(args.ContainerID)]) :
       /\ bytes' = r.data
       /\ readErr' = r.err
  /\ pc' = "del_remove"
  /\ UNCHANGED <<scratch, cmd, args, config, key, netconfs, index, result, outcome,
                 stdout, calls, ops, before, saved, last, other>>

\* consumeScratchNetConf without its deferred remove
RemoveFileNot(files, path) == files

\* the deferred os.Remove(path) of consumeScratchNetConf
RemoveFile(files, path) == [files EXCEPT ![path] = NoFile]

\* DelRemove that removes the file only when it was read and decoded
DelRemoveOnSuccess ==
  /\ pc = "del_remove"
  /\ IF readErr # None
       THEN /\ Exit(readErr)
            /\ UNCHANGED <<netconfs, index, scratch>>
       ELSE LET u == Unmarshal(bytes)
            IN  IF u.err
                  THEN /\ Exit("UnmarshalError")
                       /\ UNCHANGED <<netconfs, index, scratch>>
                  ELSE /\ scratch' = RemoveFile(scratch, ScratchPath(args.ContainerID))
                       /\ netconfs' = u.val
                       /\ index' = 0
                       /\ IF u.val = << >>
                            THEN Exit("ok")
                            ELSE /\ pc' = "del_call"
                                 /\ UNCHANGED outcome
  /\ UNCHANGED <<cmd, args, config, key, bytes, readErr, result, stdout, calls,
                 ops, before, saved, last, other>>

\* consumeScratchNetConf line 131 and cmdDel lines 144-152: the deferred remove
\* runs, consumeScratchNetConf returns, the bytes are decoded
DelRemove ==
  /\ pc = "del_remove"
  /\ scratch' = RemoveFile(scratch, ScratchPath(args.ContainerID))
  /\ IF readErr # None
       THEN /\ Exit(readErr)
            /\ UNCHANGED <<netconfs, index>>
       ELSE LET u == Unmarshal(bytes)
            IN  IF u.err
                  THEN /\ Exit("UnmarshalError")
                       /\ UNCHANGED <<netconfs, index>>
                  ELSE /\ netconfs' = u.val
                       /\ index' = 0
                       /\ IF u.val = << >>
                            THEN Exit("ok")
                            ELSE /\ pc' = "del_call"
                                 /\ UNCHANGED outcome
  /\ UNCHANGED <<cmd, args, config, key, bytes, readErr, result, stdout, calls,
                 ops, before, saved, last, other>>

\* cmdDel lines 154-159: json.Marshal, the type assertion, DelegateDel is called
DelDelegateCall ==
  /\ pc = "del_call"
  /\ IF TypeAssertOk(Conf)
       THEN /\ calls' = Append(calls, Call("DEL", Conf))
            /\ pc' = "del_wait"
            /\ UNCHANGED outcome
       ELSE /\ Exit("Panic")
            /\ UNCHANGED calls
  /\ UNCHANGED <<scratch, cmd, args, config, key, bytes, readErr, netconfs, index,
                 result, stdout, ops, before, saved, last, other>>

\* DelDelegateReturn with the error of DelegateDel dropped
DelDelegateReturnContinues ==
  /\ pc = "del_wait"
  /\ \E st \in {"ok", "failed"} : calls' = [calls EXCEPT ![Len(calls)].status = st]
  /\ index' = NextIndex(index)
  /\ IF NextIndex(index) < Len(netconfs)
       THEN /\ pc' = "del_call"
            /\ UNCHANGED outcome
       ELSE Exit("ok")
  /\ UNCHANGED <<scratch, cmd, args, config, key, bytes, readErr, netconfs, result,
                 stdout, ops, before, saved, last, other>>

\* cmdDel lines 159-163: DelegateDel returns
DelDelegateReturn ==
  /\ pc = "del_wait"
  /\ \/ /\ calls' = [calls EXCEPT ![Len(calls)].status = "ok"]
        /\ index' = NextIndex(index)
        /\ IF NextIndex(index) < Len(netconfs)
             THEN /\ pc' = "del_call"
                  /\ UNCHANGED outcome
             ELSE Exit("ok")
     \/ /\ calls' = [calls EXCEPT ![Len(calls)].status = "failed"]
        /\ Exit("DelegateError")
        /\ UNCHANGED index
  /\ UNCHANGED <<scratch, cmd, args, config, key, bytes, readErr, netconfs, result,
                 stdout, ops, before, saved, last, other>>

(* ------------------------------ the host ------------------------------ *)

\* the process has exited; the host may invoke the plugin again
Return ==
  /\ pc = "done"
  /\ pc' = "idle"
  /\ cmd' = None
  /\ args' = NoArgs
  /\ config' = NoConfig
  /\ key' = << >>
  /\ bytes' = << >>
  /\ readErr' = None
  /\ netconfs' = << >>
  /\ index' = 0
  /\ result' = None
  /\ outcome' = None
  /\ stdout' = None
  /\ calls' = << >>
  /\ ops' = NoOps
  /\ before' = NoFile
  /\ last' = [last EXCEPT ![args.ContainerID] = [cmd |-> cmd, outcome |-> Ended(outcome)]]
  /\ saved' = IF cmd = "DEL" THEN [saved EXCEPT ![args.ContainerID] = NoFile] ELSE saved
  /\ UNCHANGED <<scratch, other>>

Next ==
  \/ \E c \in ContainerIDs, stdin \in StdinData : AddInvoke(c, stdin)
  \/ AddConnect
  \/ AddGet
  \/ AddSave
  \/ AddDelegateCall
  \/ AddDelegateReturn
  \/ AddPrint
  \/ \E c \in ContainerIDs, stdin \in StdinData : DelInvoke(c, stdin)
  \/ DelRead
  \/ DelRemove
  \/ DelDelegateCall
  \/ DelDelegateReturn
  \/ Return

Spec == Init /\ [][Next]_vars

\* the steps of a running invocation: each is a call that returns
Steps ==
  \/ AddConnect
  \/ AddGet
  \/ AddSave
  \/ AddDelegateCall
  \/ AddDelegateReturn
  \/ AddPrint
  \/ DelRead
  \/ DelRemove
  \/ DelDelegateCall
  \/ DelDelegateReturn

(* ------------------- two teardowns at the same time -------------------- *)

\* the variables of the first process and its history
first == <<pc, cmd, args, config, key, bytes, readErr, netconfs, index, result,
           outcome, stdout, calls, ops, before, saved, last>>

\* the container and the netconf of the invocations that race
RaceContainer == "1"
RaceStdin ==
  [json |-> TRUE, StoreBackend |-> "etcd", BasePath |-> <<"c", "n", "i", "/">>]

\* cmdDel is invoked in a second process; no setup runs at that time
OtherInvoke(c) ==
  /\ other.pc = "idle"
  /\ cmd # "ADD"
  /\ other' = [NoOther EXCEPT !.pc = "del_read", !.ContainerID = c]
  /\ UNCHANGED <<scratch, first>>

\* consumeScratchNetConf line 133 in the second process
OtherRead ==
  /\ other.pc = "del_read"
  /\ \E r \in ReadAnswers(scratch[ScratchPath(other.ContainerID)]) :
       other' = [other EXCEPT !.bytes = r.data, !.readErr = r.err, !.pc = "del_remove"]
  /\ UNCHANGED <<scratch, first>>

\* how the second process goes on once consumeScratchNetConf has returned
OtherDecoded ==
  IF other.readErr # None
    THEN [other EXCEPT !.pc = "done", !.outcome = other.readErr]
  ELSE LET u == Unmarshal(other.bytes)
       IN  IF u.err THEN [other EXCEPT !.pc = "done", !.outcome = "UnmarshalError"]
           ELSE IF u.val = << >> THEN [other EXCEPT !.pc = "done", !.outcome = "ok"]
           ELSE [other EXCEPT !.pc = "del_call", !.netconfs = u.val, !.index = 0]

\* consumeScratchNetConf line 131 and cmdDel lines 144-152 in the second process
OtherRemove ==
  /\ other.pc = "del_remove"
  /\ scratch' = RemoveFile(scratch, ScratchPath(other.ContainerID))
  /\ other' = OtherDecoded
  /\ UNCHANGED first

\* cmdDel lines 154-159 in the second process
OtherDelegateCall ==
  /\ other.pc = "del_call"
  /\ LET conf == other.netconfs[other.index + 1]
     IN  IF TypeAssertOk(conf)
           THEN other' = [other EXCEPT
                            !.pc = "del_wait",
                            !.calls = Append(@, [cmd |-> "DEL", idx |-> other.index,
                                                 type |-> TypeOf(conf),
                                                 conf |-> Marshal(conf),
                                                 status |-> "running", res |-> None])]
           ELSE other' = [other EXCEPT !.pc = "done", !.outcome = "Panic"]
  /\ UNCHANGED <<scratch, first>>

\* cmdDel lines 159-163 in the second process
OtherDelegateReturn ==
  /\ other.pc = "del_wait"
  /\ \/ other' = [other EXCEPT
                     !.calls[Len(other.calls)].status = "ok",
                     !.index = NextIndex(@),
                     !.pc = IF NextIndex(other.index) < Len(other.netconfs)
                              THEN "del_call" ELSE "done",
                     !.outcome = IF NextIndex(other.index) < Len(other.netconfs)
                                   THEN None ELSE "ok"]
     \/ other' = [other EXCEPT
                     !.calls[Len(other.calls)].status = "failed",
                     !.pc = "done",
                     !.outcome = "DelegateError"]
  /\ UNCHANGED <<scratch, first>>

\* the second process has exited
OtherReturn ==
  /\ other.pc = "done"
  /\ other' = NoOther
  /\ UNCHANGED <<scratch, first>>

\* one container's setups and teardowns, the teardowns in two processes; the
\* host starts no setup while a teardown runs
NextRace ==
  \/ other.pc = "idle" /\ AddInvoke(RaceContainer, RaceStdin)
  \/ AddConnect
  \/ AddGet
  \/ AddSave
  \/ AddDelegateCall
  \/ AddDelegateReturn
  \/ AddPrint
  \/ DelInvoke(RaceContainer, RaceStdin)
  \/ DelRead
  \/ DelRemove
  \/ DelDelegateCall
  \/ DelDelegateReturn
  \/ Return
  \/ OtherInvoke(RaceContainer)
  \/ OtherRead
  \/ OtherRemove
  \/ OtherDelegateCall
  \/ OtherDelegateReturn
  \/ OtherReturn

SpecRace == Init /\ [][NextRace]_vars

(* ------------------------ every call returning ------------------------- *)

\* the host invoking the plugin for one container, with any netconf
NextLive ==
  \/ \E stdin \in StdinData : AddInvoke(RaceContainer, stdin)
  \/ \E stdin \in StdinData : DelInvoke(RaceContainer, stdin)
  \/ Steps
  \/ Return

\* the store, the file system and every child plugin answer each call
SpecLive == Init /\ [][NextLive]_vars /\ WF_vars(Steps)

(* ------------------------------- claims ------------------------------- *)

\* the scratch path and the container of the running invocation
Path == ScratchPath(args.ContainerID)
Container == args.ContainerID

\* positions of cmdAdd after saveScratchNetConf returned without an error
AddLoopPcs == {"add_call", "add_wait", "add_print"}

EmptyList == <<"[", "]">>

\* C1: a setup that fetched and parsed the array calls saveScratchNetConf exactly
\* once, with the fetched bytes, and the write is complete before the first
\* DelegateAdd starts: no attach is ever started or finished while the scratch
\* file does not hold the bytes this invocation fetched.
PersistBeforeDelegation ==
  cmd = "ADD" =>
    /\ (pc \in {"add_connect", "add_get", "add_save"} => ops.save = 0 /\ calls = << >>)
    /\ (pc \in AddLoopPcs \/ calls # << >>)
         => (ops.save = 1 /\ scratch[Path] = File(bytes))
    /\ (pc = "done" /\ outcome \notin {"ConfigError", "Fatal", "GetError", "UnmarshalError"})
         => ops.save = 1

\* C1 witness: the first attach is running over a record this setup has overwritten
PersistBeforeDelegationWitness ==
  /\ cmd = "ADD"
  /\ pc = "add_wait"
  /\ Len(calls) = 1
  /\ before.exists
  /\ before # File(bytes)
  /\ scratch[Path] = File(bytes)

\* the bytes whose array the running invocation replays
Source == IF cmd = "ADD" THEN bytes ELSE saved[Container].data

\* C2: the delegations of a setup, and of the teardown that follows it, are those
\* of the entries of the array in index order: the i-th delegation is of entry
\* i-1, to the handler its "type" names, none is skipped, and a delegation starts
\* only when all delegations before it have returned.
DelegationOrder ==
  cmd \in {"ADD", "DEL"} =>
    LET L == Unmarshal(Source).val
    IN  /\ Len(calls) <= Len(L)
        /\ \A i \in 1..Len(calls) :
             /\ calls[i].cmd = cmd
             /\ calls[i].idx = i - 1
             /\ i <= Len(L)
                  => /\ TypeAssertOk(L[i])
                     /\ calls[i].type = L[i]["type"].v
                     /\ calls[i].conf = Marshal(L[i])
        /\ \A i \in 1..(Len(calls) - 1) : calls[i].status = "ok"
        /\ (pc = "done" /\ outcome = "ok")
             => /\ Len(calls) = Len(L)
                /\ \A i \in 1..Len(calls) : calls[i].status = "ok"

\* C2 witness: a teardown has detached bridge, loopback, bridge in that order
DelegationOrderWitness ==
  /\ cmd = "DEL"
  /\ pc = "done"
  /\ outcome = "ok"
  /\ Len(calls) = 3
  /\ calls[1].type = "bridge"
  /\ calls[2].type = "loopback"
  /\ calls[3].type = "bridge"

\* C3: a setup that succeeds for an array of one or more entries prints exactly
\* the result of the attach of entry 0.
ResultIsFirst ==
  (cmd = "ADD" /\ pc = "done" /\ outcome = "ok" /\ Len(Unmarshal(bytes).val) >= 1)
    => /\ calls # << >>
       /\ calls[1].idx = 0
       /\ stdout = calls[1].res

\* C3 witness: a setup of three entries succeeded and the later entries'
\* results differ from the one printed
ResultIsFirstWitness ==
  /\ cmd = "ADD"
  /\ pc = "done"
  /\ outcome = "ok"
  /\ Len(calls) = 3
  /\ calls[2].res # calls[1].res
  /\ calls[3].res # calls[1].res
  /\ stdout = calls[1].res

RoundTrip ==
  (cmd = "DEL" /\ pc # "del_read" /\ readErr = None /\ saved[Container].exists)
    => bytes = saved[Container].data

\* C5 witness: a teardown has replayed the bytes with their white space
RoundTripWitness ==
  /\ cmd = "DEL"
  /\ pc = "done"
  /\ outcome = "ok"
  /\ bytes = Spaced
  /\ saved[Container].data = Spaced

\* C6: a teardown loads no configuration, opens no store, reads no key and saves
\* nothing; the array it replays is the one the last setup saved.
TeardownUsesOnlyScratch ==
  cmd = "DEL" =>
    /\ ops = NoOps
    /\ config = NoConfig
    /\ key = << >>
    /\ scratch[Path] \in {before, NoFile}
    /\ (pc \in {"del_call", "del_wait"} \/ calls # << >>)
         => /\ saved[Container].exists
            /\ netconfs = Unmarshal(saved[Container].data).val

\* C6 witness: a teardown has detached two or more entries
TeardownUsesOnlyScratchWitness ==
  /\ cmd = "DEL"
  /\ pc = "done"
  /\ outcome = "ok"
  /\ Len(calls) >= 2
  /\ ops = NoOps

\* C7: a setup that fetched the empty array [] ends with the parse error, with
\* the scratch file as it was and nothing delegated (a failure to write the
\* scratch file set aside).
EmptyListRejected ==
  (cmd = "ADD" /\ bytes = EmptyList /\ pc = "done" /\ outcome # "SaveError")
    => /\ outcome = "UnmarshalError"
       /\ scratch[Path] = before
       /\ calls = << >>

\* C8: a setup whose kv.Get failed or whose bytes are no array ends with that
\* error, never reaches saveScratchNetConf or a delegation, prints nothing and
\* leaves the scratch file as it was.
FetchFailureLeavesNoTrace ==
  cmd = "ADD" =>
    /\ (ops.get = 1 /\ Unmarshal(bytes).err)
         => (pc = "done" /\ outcome \in {"GetError", "UnmarshalError"})
    /\ (pc = "done" /\ outcome \in {"GetError", "UnmarshalError"})
         => /\ ops.save = 0
            /\ scratch[Path] = before
            /\ calls = << >>
            /\ stdout = None

\* C8 witness: the key is not in the store and an earlier record is still there
FetchFailureLeavesNoTraceWitness ==
  /\ cmd = "ADD"
  /\ pc = "done"
  /\ outcome = "GetError"
  /\ key \notin StoreKeys
  /\ before.exists
  /\ scratch[Path] = before

\* C9: in a setup a failed attach is the last delegation: the setup ends with
\* the delegation error and prints nothing, no later entry is delegated and
\* nothing is detached.
AttachFailureAborts ==
  cmd = "ADD" =>
    \A i \in 1..Len(calls) :
      /\ calls[i].cmd = "ADD"
      /\ calls[i].status = "failed"
           => /\ i = Len(calls)
              /\ pc = "done"
              /\ outcome = "DelegateError"
              /\ stdout = None

\* C9 witness: the second of three entries failed after the first succeeded
AttachFailureAbortsWitness ==
  /\ cmd = "ADD"
  /\ pc = "done"
  /\ Len(netconfs) = 3
  /\ Len(calls) = 2
  /\ calls[1].status = "ok"
  /\ calls[2].status = "failed"

KeyDerivation ==
  (cmd = "ADD" /\ (pc = "add_get" \/ ops.get = 1)) =>
    LET basePath == args.StdinData.BasePath
        prefix == SubSeq(key, 1, Len(key) - 1)
    IN  /\ key = prefix \o <<Container>>
        /\ HasSuffix(prefix, <<"/">>)
        /\ HasSuffix(basePath, <<"/">>) => prefix = basePath
        /\ ~HasSuffix(basePath, <<"/">>) => prefix = basePath \o <<"/">>

\* C11 witness: a setup configured with basePath cni has read cni/<containerID>
\* and succeeded
KeyDerivationWitness ==
  /\ cmd = "ADD"
  /\ pc = "done"
  /\ outcome = "ok"
  /\ args.StdinData.BasePath = <<"c", "n", "i">>
  /\ key = <<"c", "n", "i", "/", Container>>

\* C12: a setup whose libkv.NewStore failed ends with an error returned to its
\* caller, as every other failure does, having read no key, written no scratch
\* file and delegated nothing.
ConnectFailurePropagates ==
  (cmd = "ADD" /\ pc = "done" /\ ops.connect = 1 /\ ops.get = 0)
    => /\ outcome \in ReturnedErrors
       /\ ops.save = 0
       /\ scratch[Path] = before
       /\ calls = << >>

\* C13: a setup that comes to an entry whose "type" is missing or no string
\* ends there with an error returned to its caller: that entry and the later
\* ones are not delegated and nothing is detached.
BadTypeReturnsError ==
  (cmd = "ADD" /\ ops.save = 1 /\ pc # "add_call"
     /\ index < Len(netconfs) /\ ~TypeAssertOk(netconfs[index + 1]))
    => /\ pc = "done"
       /\ outcome \in ReturnedErrors
       /\ Len(calls) = index
       /\ \A i \in 1..Len(calls) : calls[i].cmd = "ADD"

\* C14: when a setup ends with a failed attach, the scratch file holds the
\* bytes it fetched; the teardown that follows finds that record, reads those
\* bytes and detaches the entries of the whole array in index order: it stops
\* short of the last entry only at a detach that fails, at an entry without a
\* usable "type" or when the file cannot be read.
RecordSurvivesFailedAttach ==
  /\ (cmd = "ADD" /\ pc = "done" /\ outcome = "DelegateError")
       => scratch[Path] = File(bytes)
  /\ (cmd = "DEL" /\ last[Container] = [cmd |-> "ADD", outcome |-> "DelegateError"])
       => LET L == Unmarshal(before.data).val
          IN  /\ before.exists
              /\ before = saved[Container]
              /\ Len(L) >= 1
              /\ (pc # "del_read" /\ readErr = None) => bytes = before.data
              /\ \A i \in 1..Len(calls) :
                   calls[i].cmd = "DEL" /\ calls[i].idx = i - 1
              /\ pc = "done" => outcome \in {"ok", "DelegateError", "Panic", "IOError"}
              /\ (pc = "done" /\ outcome = "ok") => Len(calls) = Len(L)

\* C14 witness: after a setup that failed at an attach, a teardown has detached
\* all three entries
RecordSurvivesFailedAttachWitness ==
  /\ cmd = "DEL"
  /\ pc = "done"
  /\ outcome = "ok"
  /\ last[Container] = [cmd |-> "ADD", outcome |-> "DelegateError"]
  /\ Len(calls) = 3

\* C15: a setup prints a result or ends with success only when every entry of
\* the array has been delegated, in order, and every attach has succeeded.
SuccessMeansAllAttached ==
  (cmd = "ADD" /\ (outcome = "ok" \/ stdout # None))
    => /\ pc = "done"
       /\ outcome = "ok"
       /\ Len(calls) = Len(Unmarshal(bytes).val)
       /\ \A i \in 1..Len(calls) : calls[i].status = "ok" /\ calls[i].idx = i - 1

\* C15 witness: a setup of two entries has printed its result
SuccessMeansAllAttachedWitness ==
  /\ cmd = "ADD"
  /\ pc = "done"
  /\ stdout # None
  /\ Len(netconfs) = 2
  /\ Len(calls) = 2

\* whether a teardown has obtained the bytes of the scratch file
FirstObtained == cmd = "DEL" /\ pc # "del_read" /\ readErr = None
OtherObtained == other.pc \notin {"idle", "del_read"} /\ other.readErr = None

\* C16: of the teardowns of one container that run at the same time after one
\* setup, at most one obtains the bytes of the scratch file.
AtomicConsume ==
  (cmd = "DEL" /\ last[Container] = [cmd |-> "ADD", outcome |-> "ok"])
    => ~(FirstObtained /\ OtherObtained /\ other.ContainerID = Container)

\* C17: a step changes the scratch file of a container only when it is a step
\* of a setup or teardown of that container: the files of all other containers
\* stay as they are, in presence and in bytes.
ScratchIsolation ==
  [][\A d \in ContainerIDs :
       scratch'[ScratchPath(d)] # scratch[ScratchPath(d)]
         => (cmd \in {"ADD", "DEL"} /\ args.ContainerID = d)]_vars

\* C17 witness: a teardown of container 1 has removed its record while the
\* record of container 2 is there
ScratchIsolationWitness ==
  /\ cmd = "DEL"
  /\ Container = "1"
  /\ pc = "done"
  /\ before.exists
  /\ ~scratch[ScratchPath("1")].exists
  /\ scratch[ScratchPath("2")].exists

DelegatesOnceAndEnds ==
  /\ [](cmd \in {"ADD", "DEL"}
          => /\ Len(calls) <= Len(netconfs)
             /\ \A i, j \in 1..Len(calls) : calls[i].idx = calls[j].idx => i = j)
  /\ (pc \notin {"idle", "done"}) ~> (pc = "done")

\* C20 witness: a setup has ended at the failed attach of the third of three
\* entries, after three delegations
DelegatesOnceAndEndsWitness ==
  /\ cmd = "ADD"
  /\ pc = "done"
  /\ outcome = "DelegateError"
  /\ Len(netconfs) = 3
  /\ Len(calls) = 3

====
